---- MODULE Spec2Model ----
(***************************************************************************)
(* IVR Prompt-Campaign Mapper (streamlit_app.py).                          *)
(*                                                                         *)
(* Python strings are TLA+ strings.  A table cell is <<>> for a null (NaN) *)
(* cell and <<s>> for a cell holding the string s.  A table row is a       *)
(* function from the column names the table has to cells, so that reading  *)
(* a column the table lacks is a KeyError.  The campaign index (a Python   *)
(* dict) is a function from strings to cells.                              *)
(***************************************************************************)
EXTENDS Integers, Sequences, FiniteSets, TLC

VARIABLES
    ivr_details_df,   \* the campaign table: [columns, rows]
    prompts_df,       \* the prompt table: [columns, rows]
    pc,               \* position of main() in its body
    i,                \* create_campaign_mapping: number of the row iterrows() yields next
    mapping,          \* create_campaign_mapping: the dict under construction
    results,          \* process_files: the list of result dicts
    result_df,        \* pd.DataFrame(results): [columns, rows]
    stats,            \* total_prompts, mapped_prompts, unmapped_prompts
    output,           \* what main() has written to the page inside the try block
    name,             \* normalize_ivr_name on its own: the argument
    normalized        \* normalize_ivr_name on its own: successive applications

vars == <<ivr_details_df, prompts_df, pc, i, mapping, results, result_df, stats,
          output, name, normalized>>

-----------------------------------------------------------------------------
(* Bounds *)

\* rows of the uploaded tables (Spec)
MaxUploadCampaigns == 2
MaxUploadPrompts == 3
\* rows of the campaign table (SpecMapping)
MaxRecords == 3
\* rows of the two tables (SpecProcess)
MaxCampaigns == 2
MaxPrompts == 2
\* pieces a name is put together from (SpecNormalize)
MaxPieces == 4

-----------------------------------------------------------------------------
(* Strings *)

Suffix == ".five9ivr"

\* The characters str.strip() removes (the ones a TLA+ string can spell).
Whitespace == {" ", "\t", "\n", "\r", "\f"}

RECURSIVE replace(_, _)
\* s.replace(old, ''): scan left to right, drop each occurrence found, resume after it.
replace(s, old) ==
    IF Len(s) < Len(old) THEN s
    ELSE IF SubSeq(s, 1, Len(old)) = old
         THEN replace(SubSeq(s, Len(old) + 1, Len(s)), old)
         ELSE SubSeq(s, 1, 1) \o replace(SubSeq(s, 2, Len(s)), old)

RECURSIVE lstrip(_)
lstrip(s) ==
    IF Len(s) > 0 /\ SubSeq(s, 1, 1) \in Whitespace
    THEN lstrip(SubSeq(s, 2, Len(s)))
    ELSE s

RECURSIVE rstrip(_)
rstrip(s) ==
    IF Len(s) > 0 /\ SubSeq(s, Len(s), Len(s)) \in Whitespace
    THEN rstrip(SubSeq(s, 1, Len(s) - 1))
    ELSE s

\* A strip that removes at most one character from each end.
strip_one(s) ==
    LET l == IF Len(s) > 0 /\ SubSeq(s, 1, 1) \in Whitespace
             THEN SubSeq(s, 2, Len(s)) ELSE s
    IN  IF Len(l) > 0 /\ SubSeq(l, Len(l), Len(l)) \in Whitespace
        THEN SubSeq(l, 1, Len(l) - 1) ELSE l

strip(s) == rstrip(lstrip(s))

normalize_ivr_name(s) == strip(replace(s, Suffix))

\* s has an occurrence of sub
Contains(s, sub) ==
    \E k \in 1..(Len(s) - Len(sub) + 1) : SubSeq(s, k, k + Len(sub) - 1) = sub

-----------------------------------------------------------------------------
(* Cells, rows, tables, dicts *)

NaN == <<>>
Str(s) == <<s>>
notna(cell) == cell # NaN

\* Whether a Python value is truthy: NaN is (a non-zero float), a string is unless empty.
truthy(cell) == cell = NaN \/ cell[1] # ""

EmptyDict == <<>>

dict_get(d, k, default) == IF k \in DOMAIN d THEN d[k] ELSE default

dict_set(d, k, v) == [x \in DOMAIN d \cup {k} |-> IF x = k THEN v ELSE d[x]]

\* Python's `a or b`: a when a is truthy, else b.
Or(a, b) == IF truthy(a) THEN a ELSE b

RECURSIVE SeqsUpTo(_, _)
\* every sequence of at most n elements of S
SeqsUpTo(S, n) ==
    IF n = 0 THEN {<<>>}
    ELSE LET shorter == SeqsUpTo(S, n - 1)
         IN  shorter \cup {Append(q, x) : q \in {r \in shorter : Len(r) = n - 1}, x \in S}

\* The rows a table with columns cols can have, each column's cells drawn from cells[column].
Rows(cols, cells) == {r \in [cols -> UNION {cells[c] : c \in cols}] :
                        \A c \in cols : r[c] \in cells[c]}

\* Every table over a subset of the columns of cells, with at most n rows.
Tables(cells, n) ==
    UNION {{[columns |-> cols, rows |-> rs] : rs \in SeqsUpTo(Rows(cols, cells), n)}
           : cols \in SUBSET DOMAIN cells}

\* Every table with all the columns of cells, with at most n rows.
FullTables(cells, n) ==
    {[columns |-> DOMAIN cells, rows |-> rs] : rs \in SeqsUpTo(Rows(DOMAIN cells, cells), n)}

NoTable == [columns |-> {}, rows |-> <<>>]
NoStats == [total_prompts |-> 0, mapped_prompts |-> 0, unmapped_prompts |-> 0]

-----------------------------------------------------------------------------
(* create_campaign_mapping *)

\* Whether evaluating the condition of line 12 on row raises KeyError.  `and`
\* evaluates its right operand only when the left one is true.
condition_raises(row) ==
    \/ "IVR name" \notin DOMAIN row
    \/ notna(row["IVR name"]) /\ "Associated campaign(s)" \notin DOMAIN row

\* A skip rule that looks at the IVR name only.
valid_record_name_only(row) == notna(row["IVR name"])

\* The condition of line 12, on a row on which it does not raise.
valid_record(row) ==
    notna(row["IVR name"]) /\ notna(row["Associated campaign(s)"])

\* An insertion that forgets the suffixed key.
insert_record_base_only(d, row) ==
    dict_set(d, normalize_ivr_name(row["IVR name"][1]), row["Associated campaign(s)"])

\* An insertion that keeps the value a key already has.
insert_record_first_wins(d, row) ==
    LET base_name == normalize_ivr_name(row["IVR name"][1])
        keep(m, k) == IF k \in DOMAIN m THEN m ELSE dict_set(m, k, row["Associated campaign(s)"])
    IN  keep(keep(d, base_name), base_name \o Suffix)

\* Lines 13-15.
insert_record(d, row) ==
    LET base_name == normalize_ivr_name(row["IVR name"][1])
    IN  dict_set(dict_set(d, base_name, row["Associated campaign(s)"]),
                 base_name \o Suffix, row["Associated campaign(s)"])

\* Lines 12-15: the body of the loop, on a row on which line 12 does not raise.
mapping_step(d, row) == IF valid_record(row) THEN insert_record(d, row) ELSE d

-----------------------------------------------------------------------------
(* process_files *)

\* Lines 26-31 raise on row: KeyError for a column the table lacks,
\* AttributeError for a null IVR name (a float has no replace).
prompt_raises(row) ==
    \/ "IVR Name" \notin DOMAIN row
    \/ row["IVR Name"] = NaN
    \/ "Prompt Name" \notin DOMAIN row

\* A lookup that falls back to the base name only when the raw key is missing.
lookup_missing_only(d, ivr_name) ==
    dict_get(d, ivr_name, dict_get(d, normalize_ivr_name(ivr_name), Str("")))

\* A lookup by the raw name alone.
lookup_raw_only(d, ivr_name) == dict_get(d, ivr_name, Str(""))

\* Line 32.
lookup(d, ivr_name) ==
    LET base_ivr_name == normalize_ivr_name(ivr_name)
    IN  Or(dict_get(d, ivr_name, Str("")), dict_get(d, base_ivr_name, Str("")))

\* A result row that keeps the normalized IVR name.
result_row_normalized(d, row) ==
    [c \in {"IVR Name", "Prompt Name", "Associated Campaigns"} |->
        CASE c = "IVR Name" -> Str(normalize_ivr_name(row["IVR Name"][1]))
          [] c = "Prompt Name" -> row["Prompt Name"]
          [] OTHER -> lookup(d, row["IVR Name"][1])]

\* Lines 29-33: the dict appended for row.
result_row(d, row) ==
    [c \in {"IVR Name", "Prompt Name", "Associated Campaigns"} |->
        CASE c = "IVR Name" -> row["IVR Name"]
          [] c = "Prompt Name" -> row["Prompt Name"]
          [] OTHER -> lookup(d, row["IVR Name"][1])]

\* pd.DataFrame(list of dicts): the columns are the dicts' keys, none for an empty list.
DataFrame(rs) ==
    [columns |-> IF rs = <<>> THEN {} ELSE DOMAIN rs[1], rows |-> rs]

-----------------------------------------------------------------------------
(* main: statistics and the unmapped report *)

\* df[col].notna().sum()
notna_sum(df, col) == Cardinality({n \in 1..Len(df.rows) : notna(df.rows[n][col])})

\* Lines 76-78.
statistics(df) ==
    LET total == Len(df.rows)
        mapped == notna_sum(df, "Associated Campaigns")
    IN  [total_prompts |-> total, mapped_prompts |-> mapped,
         unmapped_prompts |-> total - mapped]

RECURSIVE unique(_)
\* Series.unique(): the distinct values, in order of first appearance.
unique(q) ==
    IF q = <<>> THEN <<>>
    ELSE LET front == unique(SubSeq(q, 1, Len(q) - 1))
             last == q[Len(q)]
         IN  IF \E n \in 1..Len(front) : front[n] = last THEN front ELSE Append(front, last)

\* Line 103.
unmapped_ivrs(df) ==
    LET sel == SelectSeq(df.rows, LAMBDA r : r["Associated Campaigns"] = Str(""))
    IN  unique([n \in 1..Len(sel) |-> sel[n]["IVR Name"][1]])

\* Lines 101-106: what the unmapped report writes.
unmapped_report(df, unmapped_prompts) ==
    IF unmapped_prompts > 0
    THEN <<<<"subheader", "Unmapped IVRs">>,
           <<"write", "The following IVRs could not be matched to campaigns:">>>>
         \o [n \in 1..Len(unmapped_ivrs(df)) |-> <<"write", "- " \o unmapped_ivrs(df)[n]>>]
    ELSE <<>>

-----------------------------------------------------------------------------
(* The run of main() once both files are uploaded (lines 63-109) *)

\* One iteration of the loop of create_campaign_mapping (lines 11-15).
MappingRow ==
    /\ pc = "create_campaign_mapping"
    /\ i <= Len(ivr_details_df.rows)
    /\ LET row == ivr_details_df.rows[i]
       IN  IF condition_raises(row)
           THEN /\ pc' = "except"
                /\ UNCHANGED <<i, mapping>>
           ELSE /\ mapping' = mapping_step(mapping, row)
                /\ i' = i + 1
                /\ pc' = pc
    /\ UNCHANGED <<ivr_details_df, prompts_df, results, result_df, stats, output,
                   name, normalized>>

\* The loop is over: create_campaign_mapping returns the dict (lines 16, 21, 24).
MappingReturn ==
    /\ pc = "create_campaign_mapping"
    /\ i > Len(ivr_details_df.rows)
    /\ pc' = "process_files"
    /\ i' = 1
    /\ results' = <<>>
    /\ UNCHANGED <<ivr_details_df, prompts_df, mapping, result_df, stats, output,
                   name, normalized>>

\* One iteration of the loop of process_files (lines 25-33).
PromptRow ==
    /\ pc = "process_files"
    /\ i <= Len(prompts_df.rows)
    /\ LET row == prompts_df.rows[i]
       IN  IF prompt_raises(row)
           THEN /\ pc' = "except"
                /\ UNCHANGED <<i, results>>
           ELSE /\ results' = Append(results, result_row(mapping, row))
                /\ i' = i + 1
                /\ pc' = pc
    /\ UNCHANGED <<ivr_details_df, prompts_df, mapping, result_df, stats, output,
                   name, normalized>>

\* The loop is over: process_files returns the result table (lines 35, 70).
ProcessReturn ==
    /\ pc = "process_files"
    /\ i > Len(prompts_df.rows)
    /\ result_df' = DataFrame(results)
    /\ pc' = "display"
    /\ UNCHANGED <<ivr_details_df, prompts_df, i, mapping, results, stats, output,
                   name, normalized>>

\* Lines 73-74.
DisplayHeader ==
    /\ pc = "display"
    /\ output' = Append(output, <<"header", "Results">>)
    /\ pc' = "statistics"
    /\ UNCHANGED <<ivr_details_df, prompts_df, i, mapping, results, result_df, stats,
                   name, normalized>>

\* Lines 76-78; result_df['Associated Campaigns'] is a KeyError on a table without columns.
Statistics ==
    /\ pc = "statistics"
    /\ IF "Associated Campaigns" \notin result_df.columns
       THEN /\ pc' = "except"
            /\ UNCHANGED stats
       ELSE /\ stats' = statistics(result_df)
            /\ pc' = "metrics"
    /\ UNCHANGED <<ivr_details_df, prompts_df, i, mapping, results, result_df, output,
                   name, normalized>>

\* Lines 80-98: the three metrics, the result table, the download button.
DisplayResults ==
    /\ pc = "metrics"
    /\ output' = output \o <<<<"metric", "Total Prompts">>,
                             <<"metric", "Mapped Prompts">>,
                             <<"metric", "Unmapped Prompts">>,
                             <<"subheader", "Mapped Results">>,
                             <<"dataframe", "result_df">>,
                             <<"download_button", "prompt_campaign_mapping.csv">>>>
    /\ pc' = "unmapped"
    /\ UNCHANGED <<ivr_details_df, prompts_df, i, mapping, results, result_df, stats,
                   name, normalized>>

\* Lines 100-106.
DisplayUnmapped ==
    /\ pc = "unmapped"
    /\ output' = output \o unmapped_report(result_df, stats.unmapped_prompts)
    /\ pc' = "done"
    /\ UNCHANGED <<ivr_details_df, prompts_df, i, mapping, results, result_df, stats,
                   name, normalized>>

\* Lines 108-109: the handler of the try block reports the exception.
HandleException ==
    /\ pc = "except"
    /\ pc' = "error"
    /\ UNCHANGED <<ivr_details_df, prompts_df, i, mapping, results, result_df, stats,
                   output, name, normalized>>

\* The state at line 69, the two tables read.
Start(campaign_tables, prompt_tables) ==
    /\ ivr_details_df \in campaign_tables
    /\ prompts_df \in prompt_tables
    /\ pc = "create_campaign_mapping"
    /\ i = 1
    /\ mapping = EmptyDict
    /\ results = <<>>
    /\ result_df = NoTable
    /\ stats = NoStats
    /\ output = <<>>
    /\ name = ""
    /\ normalized = <<>>

-----------------------------------------------------------------------------
(* Spec: main() on tables that may lack columns, rows or cells *)

CampaignCells ==
    [c \in {"IVR name", "Associated campaign(s)"} |->
        IF c = "IVR name" THEN {Str("CampA.five9ivr"), Str("CampB"), NaN}
                          ELSE {Str("X"), Str("Y"), NaN}]

PromptCells ==
    [c \in {"IVR Name", "Prompt Name"} |->
        IF c = "IVR Name"
        THEN {Str("CampA.five9ivr"), Str("CampB.five9ivr"), Str("CampC"), NaN}
        ELSE {Str("P1"), Str("P2"), Str("P3")}]

Init ==
    Start(Tables(CampaignCells, MaxUploadCampaigns), Tables(PromptCells, MaxUploadPrompts))

Next ==
    \/ MappingRow
    \/ MappingReturn
    \/ PromptRow
    \/ ProcessReturn
    \/ DisplayHeader
    \/ Statistics
    \/ DisplayResults
    \/ DisplayUnmapped
    \/ HandleException

Spec == Init /\ [][Next]_vars

-----------------------------------------------------------------------------
(* SpecMapping: create_campaign_mapping on its own *)

MappingCells ==
    [c \in {"IVR name", "Associated campaign(s)"} |->
        IF c = "IVR name"
        THEN {Str("A"), Str(" A.five9ivr"), Str("A.five.five9ivr9ivr"), NaN}
        ELSE {Str("X"), Str("Y"), NaN}]

InitMapping == Start(Tables(MappingCells, MaxRecords), {NoTable})

NextMapping == MappingRow \/ MappingReturn

SpecMapping == InitMapping /\ [][NextMapping]_vars

-----------------------------------------------------------------------------
(* SpecProcess: process_files on tables that have their columns *)

JoinCampaignCells ==
    [c \in {"IVR name", "Associated campaign(s)"} |->
        IF c = "IVR name"
        THEN {Str("A"), Str("A.five.five9ivr9ivr")}
        ELSE {Str("X"), Str("Y"), Str("")}]

JoinPromptCells ==
    [c \in {"IVR Name", "Prompt Name"} |->
        IF c = "IVR Name"
        THEN {Str("A"), Str("A.five9ivr"), Str(" A "), Str("A.five.five9ivr9ivr")}
        ELSE {Str("P1"), Str("P2")}]

InitProcess ==
    Start(FullTables(JoinCampaignCells, MaxCampaigns), FullTables(JoinPromptCells, MaxPrompts))

NextProcess == MappingRow \/ MappingReturn \/ PromptRow \/ ProcessReturn

SpecProcess == InitProcess /\ [][NextProcess]_vars

-----------------------------------------------------------------------------
(* SpecNormalize: normalize_ivr_name on its own *)

NamePieces == {"A", " ", ".five", "9ivr", ".five9ivr"}

RECURSIVE Names(_)
\* every concatenation of at most n pieces
Names(n) ==
    IF n = 0 THEN {""}
    ELSE Names(n - 1) \cup {s \o p : s \in Names(n - 1), p \in NamePieces}

InitNormalize ==
    /\ name \in Names(MaxPieces)
    /\ normalized = <<>>
    /\ pc = "normalize_ivr_name"
    /\ ivr_details_df = NoTable
    /\ prompts_df = NoTable
    /\ i = 1
    /\ mapping = EmptyDict
    /\ results = <<>>
    /\ result_df = NoTable
    /\ stats = NoStats
    /\ output = <<>>

\* normalize_ivr_name applied to the name, then to its own result.
Normalize ==
    /\ pc = "normalize_ivr_name"
    /\ Len(normalized) < 2
    /\ normalized' = Append(normalized,
                            normalize_ivr_name(IF normalized = <<>> THEN name
                                               ELSE normalized[Len(normalized)]))
    /\ UNCHANGED <<ivr_details_df, prompts_df, pc, i, mapping, results, result_df,
                   stats, output, name>>

NextNormalize == Normalize

SpecNormalize == InitNormalize /\ [][NextNormalize]_vars

-----------------------------------------------------------------------------
(* Vocabulary of the properties *)

CampaignColumns == {"IVR name", "Associated campaign(s)"}
PromptColumns == {"IVR Name", "Prompt Name"}

\* A campaign record the index build takes: both cells present and non-null.
Valid(row) ==
    /\ CampaignColumns \subseteq DOMAIN row
    /\ row["IVR name"] # NaN
    /\ row["Associated campaign(s)"] # NaN

\* A campaign record with a null IVR name or a null campaign.
HasNull(row) ==
    \/ "IVR name" \in DOMAIN row /\ row["IVR name"] = NaN
    \/ "Associated campaign(s)" \in DOMAIN row /\ row["Associated campaign(s)"] = NaN

\* Numbers of the valid records among the first n campaign records.
ValidRows(n) == {m \in 1..n : Valid(ivr_details_df.rows[m])}

AllValidRows == ValidRows(Len(ivr_details_df.rows))

\* What the IVR name of campaign record m normalizes to.
Base(m) == normalize_ivr_name(ivr_details_df.rows[m]["IVR name"][1])

\* Numbers of the valid records that normalize to k.
RowsOfBase(k) == {m \in AllValidRows : Base(m) = k}

\* The campaign of the last valid record that normalizes to k.
LastCampaign(k) ==
    LET last == CHOOSE m \in RowsOfBase(k) : \A o \in RowsOfBase(k) : o <= m
    IN  ivr_details_df.rows[last]["Associated campaign(s)"]

\* No valid campaign record normalizes to a name that still holds the suffix.
CampaignBasesClean == \A m \in AllValidRows : ~Contains(Base(m), Suffix)

\* create_campaign_mapping has returned its index for a table that has both columns.
IndexBuilt == pc = "process_files" /\ CampaignColumns \subseteq ivr_details_df.columns

\* The raw IVR name of prompt record n, and what it normalizes to.
Raw(n) == prompts_df.rows[n]["IVR Name"][1]
PromptBase(n) == normalize_ivr_name(Raw(n))

\* The campaign process_files gave prompt record n.
Got(n) == results[n]["Associated Campaigns"]

-----------------------------------------------------------------------------
(* C1 *)

\* C1: every result row's campaign is the chained fallback over the index: the
\* value of the raw IVR name if the index maps it to a non-empty value, else
\* the value of the normalized name if the index maps that to a non-empty
\* value, else the empty string.
C1_ChainedFallback ==
    \A n \in 1..Len(results) :
        Got(n) = IF Raw(n) \in DOMAIN mapping /\ mapping[Raw(n)] # Str("")
                 THEN mapping[Raw(n)]
                 ELSE IF PromptBase(n) \in DOMAIN mapping /\ mapping[PromptBase(n)] # Str("")
                      THEN mapping[PromptBase(n)]
                      ELSE Str("")

\* C1 witness: a prompt whose raw name the index maps to the empty string got
\* the non-empty campaign of its normalized name.
C1_Witness ==
    \E n \in 1..Len(results) :
        /\ Raw(n) \in DOMAIN mapping
        /\ mapping[Raw(n)] = Str("")
        /\ Raw(n) # PromptBase(n)
        /\ Got(n) # Str("")

-----------------------------------------------------------------------------
(* C2 *)

\* C2: after i prompt rows the result list has i rows, row n carrying prompt
\* row n's 'IVR Name' and 'Prompt Name' unchanged; the table process_files
\* returns has one row per prompt row, in the prompt table's order.
C2_OneRowPerPrompt ==
    /\ pc = "process_files" => Len(results) = i - 1
    /\ \A n \in 1..Len(results) :
          /\ results[n]["IVR Name"] = prompts_df.rows[n]["IVR Name"]
          /\ results[n]["Prompt Name"] = prompts_df.rows[n]["Prompt Name"]
    /\ pc = "display" =>
          /\ Len(result_df.rows) = Len(prompts_df.rows)
          /\ \A n \in 1..Len(result_df.rows) :
                /\ result_df.rows[n]["IVR Name"] = prompts_df.rows[n]["IVR Name"]
                /\ result_df.rows[n]["Prompt Name"] = prompts_df.rows[n]["Prompt Name"]

\* C2 witness: process_files has returned two rows for two prompts that differ
\* in both fields, one of them with an IVR name that is not in normal form.
C2_Witness ==
    /\ pc = "display"
    /\ Len(result_df.rows) = 2
    /\ Raw(1) # Raw(2)
    /\ prompts_df.rows[1]["Prompt Name"] # prompts_df.rows[2]["Prompt Name"]
    /\ PromptBase(1) # Raw(1)

-----------------------------------------------------------------------------
(* C3 *)

\* Numbers of the result rows whose campaign is the empty string.
Unresolved == {n \in 1..Len(result_df.rows) :
                 result_df.rows[n]["Associated Campaigns"] = Str("")}

\* The IVR names the unmapped report lists.
Listed == {output[k][2] : k \in {j \in 1..Len(output) :
                                   output[j][1] = "write" /\ SubSeq(output[j][2], 1, 2) = "- "}}

ScenarioA ==
    /\ ivr_details_df.columns = CampaignColumns
    /\ ivr_details_df.rows =
         << [c \in CampaignColumns |-> IF c = "IVR name" THEN Str("CampA.five9ivr") ELSE Str("X")],
            [c \in CampaignColumns |-> IF c = "IVR name" THEN Str("CampB") ELSE Str("Y")] >>
    /\ prompts_df.columns = PromptColumns
    /\ prompts_df.rows =
         << [c \in PromptColumns |-> IF c = "IVR Name" THEN Str("CampA.five9ivr") ELSE Str("P1")],
            [c \in PromptColumns |-> IF c = "IVR Name" THEN Str("CampB.five9ivr") ELSE Str("P2")],
            [c \in PromptColumns |-> IF c = "IVR Name" THEN Str("CampC") ELSE Str("P3")] >>

\* C3: when the run is done, every prompt whose result row has the empty string
\* as campaign is counted in the reported unmapped count and its IVR name is
\* listed in the unmapped report; in Scenario A the count is 1 and the listing
\* is exactly CampC.
C3_UnmappedReported ==
    pc = "done" =>
        /\ stats.unmapped_prompts >= Cardinality(Unresolved)
        /\ \A n \in Unresolved : ("- " \o result_df.rows[n]["IVR Name"][1]) \in Listed
        /\ ScenarioA => stats.unmapped_prompts = 1 /\ Listed = {"- CampC"}

-----------------------------------------------------------------------------
(* C4 *)

\* For every valid record, the index holds its base name and the suffixed base
\* name, with the same value.
BothKeys ==
    \A m \in AllValidRows :
        /\ Base(m) \in DOMAIN mapping
        /\ (Base(m) \o Suffix) \in DOMAIN mapping
        /\ mapping[Base(m)] = mapping[Base(m) \o Suffix]

\* C4 as stated: after create_campaign_mapping has processed the campaign
\* records, for every valid record normalizing to k the index has k and
\* k + '.five9ivr', mapped to the same value.
C4_BothKeysAlways == IndexBuilt => BothKeys

\* C4 amended: the same, provided no valid record normalizes to a name that
\* still contains '.five9ivr'.
C4_BothKeys == (IndexBuilt /\ CampaignBasesClean) => BothKeys

\* C4 witness: an index built from two valid records of different surface
\* forms, none of which normalizes to a name with the suffix in it.
C4_Witness ==
    /\ IndexBuilt
    /\ CampaignBasesClean
    /\ Cardinality(AllValidRows) >= 2
    /\ \E m \in AllValidRows : Base(m) # ivr_details_df.rows[m]["IVR name"][1]

-----------------------------------------------------------------------------
(* C5 *)

\* For every base name a valid record normalizes to, both of its keys hold the
\* campaign of the last valid record normalizing to it.
LastWriteWins ==
    \A m \in AllValidRows :
        /\ Base(m) \in DOMAIN mapping
        /\ (Base(m) \o Suffix) \in DOMAIN mapping
        /\ mapping[Base(m)] = LastCampaign(Base(m))
        /\ mapping[Base(m) \o Suffix] = LastCampaign(Base(m))

\* A table with both columns never makes create_campaign_mapping raise.
NoBuildError == CampaignColumns \subseteq ivr_details_df.columns => pc # "except"

\* C5 as stated: last write wins for k and k + '.five9ivr', for every base k,
\* and a collision raises no error.
C5_LastWriteWinsAlways == NoBuildError /\ (IndexBuilt => LastWriteWins)

\* C5 amended: the same, provided no valid record normalizes to a name that
\* still contains '.five9ivr'.
C5_LastWriteWins == NoBuildError /\ ((IndexBuilt /\ CampaignBasesClean) => LastWriteWins)

\* C5 witness: an index built from two valid records that normalize to the
\* same name and carry different campaigns.
C5_Witness ==
    /\ IndexBuilt
    /\ CampaignBasesClean
    /\ \E m, o \in AllValidRows :
          /\ m < o
          /\ Base(m) = Base(o)
          /\ ivr_details_df.rows[m]["Associated campaign(s)"]
               # ivr_details_df.rows[o]["Associated campaign(s)"]

-----------------------------------------------------------------------------
(* C6 *)

\* The index build is about to process a record with a null name or campaign.
AtNullRecord ==
    /\ pc = "create_campaign_mapping"
    /\ i <= Len(ivr_details_df.rows)
    /\ HasNull(ivr_details_df.rows[i])

\* C6: processing a campaign record whose IVR name or campaign is null leaves
\* the index unchanged, and the index never has more than twice as many
\* entries as valid records processed.
C6_SkipRule ==
    /\ [][AtNullRecord => mapping' = mapping]_vars
    /\ [](Cardinality(DOMAIN mapping) <=
            2 * Cardinality(ValidRows(IF pc = "create_campaign_mapping"
                                      THEN i - 1 ELSE Len(ivr_details_df.rows))))

\* C6 witness: the build has passed a valid record and then a record with a
\* null cell, and the index still has the valid record's two entries.
C6_Witness ==
    /\ pc = "create_campaign_mapping"
    /\ i = 3
    /\ Valid(ivr_details_df.rows[1])
    /\ HasNull(ivr_details_df.rows[2])
    /\ Cardinality(DOMAIN mapping) = 2

-----------------------------------------------------------------------------
(* C7 *)

\* An input table lacks a column the logic depends on.
MissingColumn ==
    \/ ~(CampaignColumns \subseteq ivr_details_df.columns)
    \/ ~(PromptColumns \subseteq prompts_df.columns)

\* C7: a run on tables of which one lacks a required column ends in the error
\* state, and the error state is never reached with result output on the page.
C7_AtomicFailure ==
    /\ (MissingColumn /\ pc \in {"done", "error"}) => pc = "error"
    /\ pc \in {"except", "error"} => output = <<>>

-----------------------------------------------------------------------------
(* C8 *)

\* Both tables have their columns and the prompt table has no rows.
ScenarioD ==
    /\ ~MissingColumn
    /\ prompts_df.rows = <<>>

\* C8: with an empty prompt table the run does not reach the error state, and
\* when it is done the result table has no rows and the counts are all 0.
C8_EmptyPrompts ==
    ScenarioD =>
        /\ pc \notin {"except", "error"}
        /\ pc = "done" => /\ result_df.rows = <<>>
                          /\ stats = NoStats

-----------------------------------------------------------------------------
(* C9 *)

\* C9 as stated: normalizing twice gives what normalizing once gives.
C9_IdempotentAlways ==
    Len(normalized) = 2 => normalized[2] = normalized[1]

\* C9 amended: normalizing twice gives what normalizing once gives, provided
\* the once-normalized name contains no '.five9ivr'.
C9_Idempotent ==
    (Len(normalized) = 2 /\ ~Contains(normalized[1], Suffix))
        => normalized[2] = normalized[1]

\* C9 witness: a name with the suffix and surrounding whitespace, normalized
\* twice, whose normal form has no suffix left.
C9_Witness ==
    /\ Len(normalized) = 2
    /\ ~Contains(normalized[1], Suffix)
    /\ Contains(name, Suffix)
    /\ Len(normalized[1]) + Len(Suffix) < Len(name)
    /\ normalized[1] # ""

-----------------------------------------------------------------------------
(* C10 *)

\* The campaign of the last valid campaign record normalizing to k, or the
\* empty string if there is none.
Expected(k) == IF RowsOfBase(k) = {} THEN Str("") ELSE LastCampaign(k)

\* Prompt rows a and b got the same campaign, the one expected of their base.
SameCampaign(a, b) == Got(a) = Got(b) /\ Got(a) = Expected(PromptBase(a))

\* C10 as stated: two prompts whose IVR names normalize to the same string get
\* the same campaign, that of the last valid campaign record with that
\* normalized name, or the empty string.
C10_SurfaceFormAlways ==
    \A a, b \in 1..Len(results) :
        PromptBase(a) = PromptBase(b) => SameCampaign(a, b)

\* C10 amended: the same, provided neither the prompts' IVR names nor any
\* valid campaign record's IVR name normalizes to a string that still
\* contains '.five9ivr'.
C10_SurfaceForm ==
    \A a, b \in 1..Len(results) :
        ( /\ PromptBase(a) = PromptBase(b)
          /\ ~Contains(PromptBase(a), Suffix)
          /\ CampaignBasesClean ) => SameCampaign(a, b)

\* C10 witness: two prompts of different surface forms and the same normal
\* form, neither with a suffix left in it, both got the same non-empty campaign.
C10_Witness ==
    /\ Len(results) = 2
    /\ Raw(1) # Raw(2)
    /\ PromptBase(1) = PromptBase(2)
    /\ ~Contains(PromptBase(1), Suffix)
    /\ CampaignBasesClean
    /\ Raw(1) # PromptBase(1)
    /\ Got(1) # Str("")
    /\ Got(1) = Got(2)

====
